---------------------------- MODULE Spec2Model ----------------------------
(***************************************************************************)
(* Sequential traversals over the flow tree                                *)
(* (components/layout/sequential.rs): reflow, store_overflow,              *)
(* guess_float_placement, iterate_through_flow_tree_fragment_border_boxes  *)
(* and build_display_list_for_subtree.                                     *)
(*                                                                         *)
(* Every traversal is a recursion over the flow tree.  The recursion is    *)
(* modelled with an explicit call stack: one frame per active call of the  *)
(* recursive function, with the position (pc) inside its body.  Each       *)
(* action is one statement of the source.                                  *)
(***************************************************************************)
EXTENDS Integers, Sequences, FiniteSets, TLC

\* Largest number of flows in a flow tree.
MaxNodes == 4
\* Largest number of top-level calls made on one tree.
MaxCalls == 2

VARIABLES
    parent,     \* the flow tree: parent[n] is the parent of flow n, 0 for the root
    damage,     \* base.restyle_damage of every flow
    status,     \* "idle": no traversal is running; "running"; "panicked"
    stack,      \* the call stack of the running traversal, innermost frame last
    calls,      \* number of top-level calls started so far
    mode,       \* relayout_mode of the current call of reflow
    log,        \* what the current (or last) top-level call has done, in order
    damage0,    \* restyle damage of every flow when the current call began
    overflow,   \* overflow[n]: the call that last computed the overflow of
                \* flow n, 0 while it is the one from before the first call
    absPos,     \* absPos[n]: base.flags contains IS_ABSOLUTELY_POSITIONED
    spIn,       \* base.speculated_float_placement_in of every flow
    spOut,      \* base.speculated_float_placement_out of every flow
    spIn0,      \* spIn when the current call began
    spOut0,     \* spOut when the current call began
    boxes,      \* boxes[n]: the kind and the fragment geometry of flow n
    visits,     \* the calls the border-box iterator has received, in order
    zIndex,     \* zIndex[n]: the z-index of flow n
    scState,    \* the StackingContextCollectionState of the current build
    items,      \* the display items added to the DisplayListBuildState
    dlArgs      \* background_color and client_size of the current build

\* The state of float speculation.
floatVars == <<absPos, spIn, spOut, spIn0, spOut0>>

\* The state of the border-box iteration.
boxVars == <<boxes, visits>>

\* The state of display-list building.
paintVars == <<zIndex, scState, items, dlArgs>>

vars == <<parent, damage, status, stack, calls, mode, log, damage0, overflow,
          floatVars, boxVars, paintVars>>

----------------------------------------------------------------------------
(* The flow tree *)

Root == 1

Nodes == DOMAIN parent

\* Ordered trees with at most MaxNodes flows.  The children of a flow are
\* ordered by their number (insertion order); document order is the
\* pre-order of the tree and is in general not the numeric order.
Trees ==
    UNION { { p \in [1..n -> 0..(n - 1)] :
                /\ p[1] = 0
                /\ \A i \in 2..n : p[i] \in 1..(i - 1) } : n \in 1..MaxNodes }

KidSet(n) == { c \in Nodes : parent[c] = n }

\* child_iter_mut(): the children of n in insertion order.
Kids(n) ==
    LET S == KidSet(n)
    IN  CHOOSE s \in [1..Cardinality(S) -> S] :
            \A i, j \in 1..Cardinality(S) : i < j => s[i] < s[j]

RECURSIVE IsAncestor(_, _)
\* a is a proper ancestor of n.
IsAncestor(a, n) ==
    IF parent[n] = 0 THEN FALSE
    ELSE parent[n] = a \/ IsAncestor(a, parent[n])

----------------------------------------------------------------------------
(* Restyle damage *)

REFLOW == "REFLOW"
REFLOW_OUT_OF_FLOW == "REFLOW_OUT_OF_FLOW"
STORE_OVERFLOW == "STORE_OVERFLOW"

ReflowBits == {REFLOW, REFLOW_OUT_OF_FLOW}

----------------------------------------------------------------------------
(* The call stack *)

\* An activation of a recursive function f on flow n at statement p: kid is
\* the position of its loop over the children, floats its local floats_in.
\* level and pos are the level and the stacking_context_position it was
\* called with.
Frame(f, n, p) ==
    [fn |-> f, node |-> n, pc |-> p, kid |-> 1, floats |-> <<>>,
     level |-> 0, pos |-> <<0, 0>>]

Top == stack[Len(stack)]

Running(f, p) ==
    /\ status = "running"
    /\ stack # <<>>
    /\ Top.fn = f
    /\ Top.pc = p

\* The stack with the innermost frame's position set to p.
Goto(p) == [stack EXCEPT ![Len(stack)].pc = p]

\* The stack after the innermost call has returned.
Pop == SubSeq(stack, 1, Len(stack) - 1)

\* The status once the innermost call has returned.
AfterReturn == IF Len(stack) = 1 THEN "idle" ELSE "running"

Event(e, n) == [ev |-> e, node |-> n]

----------------------------------------------------------------------------
(* Speculated float placements *)

\* A SpeculatedFloatPlacement is kept as the term that computed it, so that
\* two placements are equal only when they were computed the same way from
\* the same values.  The placements a flow holds before the first call:
OldIn(n) == <<"old_in", n>>
OldOut(n) == <<"old_out", n>>

\* SpeculatedFloatPlacement::compute_floats_in_for_first_child(flow): from
\* the flow and its own incoming placement.
ComputeFloatsInForFirstChild(n, in) == <<"first_child", n, in>>

\* floats_in.compute_floats_in(kid): from the placement and the child.
ComputeFloatsIn(f, k) == <<"floats_in", k, f>>

\* floats_in.compute_floats_out(flow): from the placement, the flow and the
\* flow's own incoming placement.
ComputeFloatsOut(f, n, in) == <<"floats_out", n, f, in>>

\* No speculation has run on the tree.
FloatsUntouched ==
    /\ absPos = [n \in DOMAIN parent |-> FALSE]
    /\ spIn = [n \in DOMAIN parent |-> OldIn(n)]
    /\ spOut = [n \in DOMAIN parent |-> OldOut(n)]
    /\ spIn0 = spIn
    /\ spOut0 = spOut

----------------------------------------------------------------------------
(* Flows, fragments, transforms *)

\* An Option: None, or Some(x).
None == <<>>
Some(x) == <<x>>

\* No transform: Fragment::transform_matrix returns None.
NoTransform == None

\* A transform matrix (the entries that act on a point of the plane).
Matrix(a11, a12, a21, a22, a41, a42, a44) ==
    [m11 |-> a11, m12 |-> a12, m21 |-> a21, m22 |-> a22,
     m41 |-> a41, m42 |-> a42, m14 |-> 0, m24 |-> 0, m44 |-> a44]

Translation(dx, dy) == Some(Matrix(1, 0, 0, 1, dx, dy, 1))

\* A flow: whether it is a block flow, whether its fragment establishes a
\* stacking context, its fragment's inline-start margin and its
\* stacking-relative position (app units), and its fragment's transform
\* (pixels).
Box(b, sc, m, p, t) ==
    [block |-> b, sc |-> sc, margin |-> m, srp |-> p, transform |-> t]

\* The flows a tree is built from.
BoxKinds ==
    { Box(TRUE, FALSE, 7, <<11, 13>>, NoTransform),
      Box(FALSE, TRUE, 7, <<11, 13>>, Translation(1, 2)),
      Box(TRUE, TRUE, 7, <<11, 13>>, NoTransform),
      Box(TRUE, TRUE, 2, <<3, 5>>, Translation(1, 2)),
      Box(TRUE, TRUE, 2, <<3, 5>>, Some(Matrix(0, 1, -1, 0, 4, -2, 1))),
      Box(TRUE, TRUE, 2, <<3, 5>>, Some(Matrix(1, 0, 0, 1, 4, 6, 2))),
      Box(TRUE, TRUE, 2, <<3, 5>>, Some(Matrix(1, 0, 0, 1, 4, 6, 0))) }

\* A block flow without margin, offset or transform.
PlainBlock == Box(TRUE, FALSE, 0, <<0, 0>>, NoTransform)

\* The flows at the root of a tree: a block flow or another flow.
RootKinds == { PlainBlock, Box(FALSE, FALSE, 0, <<0, 0>>, NoTransform) }

\* fragment.node: the DOM node the fragment of flow n was made for.
FragmentNode(n) == <<"node", n>>

\* No border-box iteration and no display-list build has run on the tree.
BoxesUntouched ==
    /\ boxes = [n \in DOMAIN parent |-> PlainBlock]
    /\ visits = <<>>

PaintUntouched ==
    /\ zIndex = [n \in DOMAIN parent |-> 0]
    /\ scState = None
    /\ items = <<>>
    /\ dlArgs = [color |-> "none", size |-> <<0, 0>>]

----------------------------------------------------------------------------
(* reflow *)

RelayoutModes == {"Incremental", "Force"}

\* AssignISizes::should_process
AssignISizesShouldProcess(n) == damage[n] \cap ReflowBits # {}

\* AssignBSizes::should_process
AssignBSizesShouldProcess(n) == damage[n] \cap ReflowBits # {}

\* The damage of flow n after AssignBSizes::process(n): the work the reflow
\* bits asked for is done, and they are cleared.
AssignBSizesProcessDamage(n) == damage[n] \ ReflowBits

\* A body with its inner-before-outer statements exchanged (children first).
DoitBodyKidsFirst == <<"force", "kids", "isize", "bsize">>

\* A body that assigns the block size before it descends.
DoitBodyBlockFirst == <<"force", "isize", "bsize", "kids">>

\* The statements of doit's body, in the order of the source.
DoitBody == <<"force", "isize", "kids", "bsize">>

\* The statement after statement p of doit, "return" after the last.
After(p) ==
    LET i == CHOOSE k \in 1..Len(DoitBody) : DoitBody[k] = p
    IN  IF i = Len(DoitBody) THEN "return" ELSE DoitBody[i + 1]

\* Stack and status once statement p of the innermost doit is done.
StackAfter(p) == IF After(p) = "return" THEN Pop ELSE Goto(After(p))
StatusAfter(p) == IF After(p) = "return" THEN AfterReturn ELSE "running"

\* reflow(root, layout_context, relayout_mode): doit(root, ...).  The
\* separate bubble pass that the debug option puts before it runs to its end
\* first and reads and writes none of the state of this module.
ReflowCall ==
    /\ status = "idle"
    /\ calls < MaxCalls
    /\ \E m \in RelayoutModes : mode' = m
    /\ log' = <<>>
    /\ calls' = calls + 1
    /\ damage0' = damage
    /\ stack' = <<Frame("reflow", Root, DoitBody[1])>>
    /\ status' = "running"
    /\ UNCHANGED <<parent, damage, overflow, floatVars,
                   boxVars, paintVars>>

\* Damage forced on the root of the traversal only.
ForcedDamageRootOnly(n) ==
    IF mode = "Force" /\ n = Root THEN damage[n] \cup {REFLOW_OUT_OF_FLOW, REFLOW}
    ELSE damage[n]

\* Damage forced in every mode.
ForcedDamageAnyMode(n) == damage[n] \cup {REFLOW_OUT_OF_FLOW, REFLOW}

\* The damage of flow n after doit's first statement.
ForcedDamage(n) ==
    IF mode = "Force" THEN damage[n] \cup {REFLOW_OUT_OF_FLOW, REFLOW}
    ELSE damage[n]

\* doit: if relayout_mode == Force, insert REFLOW_OUT_OF_FLOW | REFLOW.
DoitForce ==
    /\ Running("reflow", "force")
    /\ damage' = [damage EXCEPT ![Top.node] = ForcedDamage(Top.node)]
    /\ stack' = StackAfter("force")
    /\ status' = StatusAfter("force")
    /\ UNCHANGED <<parent, calls, mode, log, damage0, overflow, floatVars,
                   boxVars, paintVars>>

\* A check that returns from doit at once, as store_overflow does, when the
\* flow needs no inline size.
DoitInlineCheckGated ==
    /\ Running("reflow", "isize")
    /\ IF AssignISizesShouldProcess(Top.node)
       THEN /\ log' = Append(log, Event("isize_begin", Top.node))
            /\ stack' = Goto("iproc")
            /\ status' = status
       ELSE /\ log' = log \o <<Event("isize_begin", Top.node),
                               Event("isize_end", Top.node)>>
            /\ stack' = Pop
            /\ status' = AfterReturn
    /\ UNCHANGED <<parent, damage, calls, mode, damage0, overflow, floatVars,
                   boxVars, paintVars>>

\* doit: if assign_inline_sizes.should_process(flow)
DoitInlineCheck ==
    /\ Running("reflow", "isize")
    /\ IF AssignISizesShouldProcess(Top.node)
       THEN /\ log' = Append(log, Event("isize_begin", Top.node))
            /\ stack' = Goto("iproc")
            /\ status' = status
       ELSE /\ log' = log \o <<Event("isize_begin", Top.node),
                               Event("isize_end", Top.node)>>
            /\ stack' = StackAfter("isize")
            /\ status' = StatusAfter("isize")
    /\ UNCHANGED <<parent, damage, calls, mode, damage0, overflow, floatVars,
                   boxVars, paintVars>>

\* doit: assign_inline_sizes.process(flow)
DoitInlineProcess ==
    /\ Running("reflow", "iproc")
    /\ log' = log \o <<Event("assign_inline_sizes", Top.node),
                       Event("isize_end", Top.node)>>
    /\ stack' = StackAfter("isize")
    /\ status' = StatusAfter("isize")
    /\ UNCHANGED <<parent, damage, calls, mode, damage0, overflow, floatVars,
                   boxVars, paintVars>>

\* The frame doit's loop pushes for the k-th child of flow n.
DoitKidFrame(n, k) == Frame("reflow", Kids(n)[k], DoitBody[1])

\* doit: for kid in child_iter_mut() { doit(kid, ...) }
DoitKids ==
    /\ Running("reflow", "kids")
    /\ IF Top.kid <= Len(Kids(Top.node))
       THEN /\ stack' = Append([stack EXCEPT ![Len(stack)].kid = Top.kid + 1],
                               DoitKidFrame(Top.node, Top.kid))
            /\ status' = status
       ELSE /\ stack' = StackAfter("kids")
            /\ status' = StatusAfter("kids")
    /\ UNCHANGED <<parent, damage, calls, mode, log, damage0, overflow, floatVars,
                   boxVars, paintVars>>

\* doit: if assign_block_sizes.should_process(flow)
DoitBlockCheck ==
    /\ Running("reflow", "bsize")
    /\ IF AssignBSizesShouldProcess(Top.node)
       THEN /\ log' = Append(log, Event("bsize_begin", Top.node))
            /\ stack' = Goto("bproc")
            /\ status' = status
       ELSE /\ log' = log \o <<Event("bsize_begin", Top.node),
                               Event("bsize_end", Top.node)>>
            /\ stack' = StackAfter("bsize")
            /\ status' = StatusAfter("bsize")
    /\ UNCHANGED <<parent, damage, calls, mode, damage0, overflow, floatVars,
                   boxVars, paintVars>>

\* doit: assign_block_sizes.process(flow)
DoitBlockProcess ==
    /\ Running("reflow", "bproc")
    /\ log' = log \o <<Event("assign_block_size", Top.node),
                       Event("bsize_end", Top.node)>>
    /\ damage' = [damage EXCEPT ![Top.node] = AssignBSizesProcessDamage(Top.node)]
    /\ stack' = StackAfter("bsize")
    /\ status' = StatusAfter("bsize")
    /\ UNCHANGED <<parent, calls, mode, damage0, overflow, floatVars,
                   boxVars, paintVars>>

InitReflow ==
    /\ parent \in Trees
    /\ damage \in [DOMAIN parent -> SUBSET ReflowBits]
    /\ status = "idle"
    /\ stack = <<>>
    /\ calls = 0
    /\ mode = "Incremental"
    /\ log = <<>>
    /\ damage0 = damage
    /\ overflow = [n \in DOMAIN parent |-> 0]
    /\ FloatsUntouched
    /\ BoxesUntouched
    /\ PaintUntouched

NextReflow ==
    \/ ReflowCall
    \/ DoitForce
    \/ DoitInlineCheck
    \/ DoitInlineProcess
    \/ DoitKids
    \/ DoitBlockCheck
    \/ DoitBlockProcess

SpecReflow == InitReflow /\ [][NextReflow]_vars

----------------------------------------------------------------------------
(* store_overflow *)

\* A body that clears the bit before the overflow is computed.
StoreOverflowBodyClearFirst == <<"check", "kids", "clear", "store">>

\* The statements of store_overflow's body, in the order of the source.
StoreOverflowBody == <<"check", "kids", "store", "clear">>

\* The statement after statement p of store_overflow, "return" after the last.
StoreOverflowAfter(p) ==
    LET i == CHOOSE k \in 1..Len(StoreOverflowBody) : StoreOverflowBody[k] = p
    IN  IF i = Len(StoreOverflowBody) THEN "return" ELSE StoreOverflowBody[i + 1]

StoreOverflowStackAfter(p) ==
    IF StoreOverflowAfter(p) = "return" THEN Pop ELSE Goto(StoreOverflowAfter(p))

StoreOverflowStatusAfter(p) ==
    IF StoreOverflowAfter(p) = "return" THEN AfterReturn ELSE "running"

\* store_overflow(layout_context, root), called by the layout thread.
StoreOverflowCall ==
    /\ status = "idle"
    /\ calls < MaxCalls
    /\ calls' = calls + 1
    /\ damage0' = damage
    /\ log' = <<>>
    /\ stack' = <<Frame("store_overflow", Root, StoreOverflowBody[1])>>
    /\ status' = "running"
    /\ UNCHANGED <<parent, damage, mode, overflow, floatVars,
                   boxVars, paintVars>>

\* A gate that lets every flow through.
StoreOverflowNeededAlways(n) == TRUE

\* restyle_damage.contains(STORE_OVERFLOW)
StoreOverflowNeeded(n) == STORE_OVERFLOW \in damage[n]

\* store_overflow: if !restyle_damage.contains(STORE_OVERFLOW) { return; }
StoreOverflowCheck ==
    /\ Running("store_overflow", "check")
    /\ log' = Append(log, Event("visit", Top.node))
    /\ IF StoreOverflowNeeded(Top.node)
       THEN /\ stack' = StoreOverflowStackAfter("check")
            /\ status' = StoreOverflowStatusAfter("check")
       ELSE /\ stack' = Pop
            /\ status' = AfterReturn
    /\ UNCHANGED <<parent, damage, calls, mode, damage0, overflow, floatVars,
                   boxVars, paintVars>>

\* A loop that stops after the first child.
StoreOverflowKidsLeftFirstOnly(n, k) == k <= Len(Kids(n)) /\ k <= 1

\* The loop over the children of flow n has its k-th child still to visit.
StoreOverflowKidsLeft(n, k) == k <= Len(Kids(n))

\* store_overflow: for kid in child_iter_mut() { store_overflow(ctx, kid) }
StoreOverflowKids ==
    /\ Running("store_overflow", "kids")
    /\ IF StoreOverflowKidsLeft(Top.node, Top.kid)
       THEN /\ stack' = Append([stack EXCEPT ![Len(stack)].kid = Top.kid + 1],
                               Frame("store_overflow", Kids(Top.node)[Top.kid],
                                     StoreOverflowBody[1]))
            /\ status' = status
       ELSE /\ stack' = StoreOverflowStackAfter("kids")
            /\ status' = StoreOverflowStatusAfter("kids")
    /\ UNCHANGED <<parent, damage, calls, mode, log, damage0, overflow, floatVars,
                   boxVars, paintVars>>

\* store_overflow: flow.store_overflow(layout_context) computes the overflow
\* of the flow from its own fragment and the overflow of its children.
StoreOverflowCompute ==
    /\ Running("store_overflow", "store")
    /\ overflow' = [overflow EXCEPT ![Top.node] = calls]
    /\ log' = Append(log, Event("store_overflow", Top.node))
    /\ stack' = StoreOverflowStackAfter("store")
    /\ status' = StoreOverflowStatusAfter("store")
    /\ UNCHANGED <<parent, damage, calls, mode, damage0, floatVars,
                   boxVars, paintVars>>

\* A removal that leaves the damage as it is.
StoreOverflowClearedKeeps(n) == damage[n]

\* The damage of flow n after restyle_damage.remove(STORE_OVERFLOW).
StoreOverflowCleared(n) == damage[n] \ {STORE_OVERFLOW}

\* store_overflow: restyle_damage.remove(STORE_OVERFLOW)
StoreOverflowClear ==
    /\ Running("store_overflow", "clear")
    /\ damage' = [damage EXCEPT ![Top.node] = StoreOverflowCleared(Top.node)]
    /\ log' = Append(log, Event("clear", Top.node))
    /\ stack' = StoreOverflowStackAfter("clear")
    /\ status' = StoreOverflowStatusAfter("clear")
    /\ UNCHANGED <<parent, calls, mode, damage0, overflow, floatVars,
                   boxVars, paintVars>>

InitOverflow ==
    /\ parent \in Trees
    /\ damage \in [DOMAIN parent -> SUBSET {STORE_OVERFLOW, REFLOW}]
    /\ status = "idle"
    /\ stack = <<>>
    /\ calls = 0
    /\ mode = "Incremental"
    /\ log = <<>>
    /\ damage0 = damage
    /\ overflow = [n \in DOMAIN parent |-> 0]
    /\ FloatsUntouched
    /\ BoxesUntouched
    /\ PaintUntouched

NextOverflow ==
    \/ StoreOverflowCall
    \/ StoreOverflowCheck
    \/ StoreOverflowKids
    \/ StoreOverflowCompute
    \/ StoreOverflowClear

SpecOverflow == InitOverflow /\ [][NextOverflow]_vars

----------------------------------------------------------------------------
(* guess_float_placement *)

\* A gate that lets every flow through.
GuessNeededAlways(n) == TRUE

\* restyle_damage.intersects(REFLOW)
GuessNeeded(n) == damage[n] \cap {REFLOW} # {}

\* A test that finds no flow absolutely positioned.
IsAbsolutelyPositionedNever(k) == FALSE

\* kid.base().flags.contains(IS_ABSOLUTELY_POSITIONED)
IsAbsolutelyPositioned(k) == absPos[k]

\* guess_float_placement(root), called by the layout thread.
GuessCall ==
    /\ status = "idle"
    /\ calls < MaxCalls
    /\ calls' = calls + 1
    /\ damage0' = damage
    /\ spIn0' = spIn
    /\ spOut0' = spOut
    /\ log' = <<>>
    /\ stack' = <<Frame("guess_float_placement", Root, "check")>>
    /\ status' = "running"
    /\ UNCHANGED <<parent, damage, mode, overflow, absPos, spIn, spOut,
                   boxVars, paintVars>>

\* guess_float_placement: if !restyle_damage.intersects(REFLOW) { return; }
GuessCheck ==
    /\ Running("guess_float_placement", "check")
    /\ log' = Append(log, Event("visit", Top.node))
    /\ IF GuessNeeded(Top.node)
       THEN /\ stack' = Goto("first")
            /\ status' = status
       ELSE /\ stack' = Pop
            /\ status' = AfterReturn
    /\ UNCHANGED <<parent, damage, calls, mode, damage0, overflow, floatVars,
                   boxVars, paintVars>>

\* guess_float_placement: let mut floats_in =
\* SpeculatedFloatPlacement::compute_floats_in_for_first_child(flow)
GuessFirst ==
    /\ Running("guess_float_placement", "first")
    /\ stack' = [stack EXCEPT
                    ![Len(stack)].floats =
                        ComputeFloatsInForFirstChild(Top.node, spIn[Top.node]),
                    ![Len(stack)].pc = "kids"]
    /\ UNCHANGED <<parent, damage, status, calls, mode, log, damage0, overflow,
                   floatVars,
                   boxVars, paintVars>>

\* The child the loop of the innermost call is at.
ThisKid == Kids(Top.node)[Top.kid]

\* guess_float_placement, the loop over the children, an absolutely
\* positioned child: guess_float_placement(kid) and nothing else.
GuessKidAbsolute ==
    /\ Running("guess_float_placement", "kids")
    /\ Top.kid <= Len(Kids(Top.node))
    /\ IsAbsolutelyPositioned(ThisKid)
    /\ stack' = Append([stack EXCEPT ![Len(stack)].kid = Top.kid + 1],
                       Frame("guess_float_placement", ThisKid, "check"))
    /\ UNCHANGED <<parent, damage, status, calls, mode, log, damage0, overflow,
                   floatVars,
                   boxVars, paintVars>>

\* guess_float_placement, the loop over the children, any other child:
\* floats_in.compute_floats_in(kid); kid.speculated_float_placement_in =
\* floats_in; guess_float_placement(kid).
GuessKidInFlow ==
    /\ Running("guess_float_placement", "kids")
    /\ Top.kid <= Len(Kids(Top.node))
    /\ ~IsAbsolutelyPositioned(ThisKid)
    /\ spIn' = [spIn EXCEPT ![ThisKid] = ComputeFloatsIn(Top.floats, ThisKid)]
    /\ log' = Append(log, Event("write_in", ThisKid))
    /\ stack' = Append(
           [stack EXCEPT ![Len(stack)].floats = ComputeFloatsIn(Top.floats, ThisKid),
                         ![Len(stack)].pc = "kidret"],
           Frame("guess_float_placement", ThisKid, "check"))
    /\ UNCHANGED <<parent, damage, status, calls, mode, damage0, overflow,
                   absPos, spOut, spIn0, spOut0,
                   boxVars, paintVars>>

\* guess_float_placement, after the loop: floats_in.compute_floats_out(flow);
\* flow.speculated_float_placement_out = floats_in
GuessOut ==
    /\ Running("guess_float_placement", "kids")
    /\ Top.kid > Len(Kids(Top.node))
    /\ spOut' = [spOut EXCEPT ![Top.node] =
                    ComputeFloatsOut(Top.floats, Top.node, spIn[Top.node])]
    /\ log' = Append(log, Event("write_out", Top.node))
    /\ stack' = Pop
    /\ status' = AfterReturn
    /\ UNCHANGED <<parent, damage, calls, mode, damage0, overflow,
                   absPos, spIn, spIn0, spOut0,
                   boxVars, paintVars>>

\* guess_float_placement: floats_in = kid.base().speculated_float_placement_out
GuessKidReturn ==
    /\ Running("guess_float_placement", "kidret")
    /\ stack' = [stack EXCEPT ![Len(stack)].floats = spOut[ThisKid],
                              ![Len(stack)].kid = Top.kid + 1,
                              ![Len(stack)].pc = "kids"]
    /\ log' = Append(log, Event("read_out", ThisKid))
    /\ UNCHANGED <<parent, damage, status, calls, mode, damage0, overflow,
                   floatVars,
                   boxVars, paintVars>>

RECURSIVE GuessFrom(_, _, _), GuessLoop(_, _, _, _, _)

\* guess_float_placement(n) as a function of the stored placements
\* st = [in, out], on the tree from which the flows in gone are taken out:
\* the stored placements when the call returns.
GuessFrom(st, n, gone) ==
    IF ~GuessNeeded(n) THEN st
    ELSE GuessLoop(st, n, gone, 1, ComputeFloatsInForFirstChild(n, st.in[n]))

\* The loop of guess_float_placement(n) from its i-th child on with floats_in
\* = f, and the assignment of the outgoing placement after it.
GuessLoop(st, n, gone, i, f) ==
    IF i > Len(Kids(n))
    THEN [st EXCEPT !.out[n] = ComputeFloatsOut(f, n, st.in[n])]
    ELSE LET k == Kids(n)[i]
             st1 == GuessFrom([st EXCEPT !.in[k] = ComputeFloatsIn(f, k)], k, gone)
         IN  IF k \in gone THEN GuessLoop(st, n, gone, i + 1, f)
             ELSE IF IsAbsolutelyPositioned(k)
                  THEN GuessLoop(GuessFrom(st, k, gone), n, gone, i + 1, f)
                  ELSE GuessLoop(st1, n, gone, i + 1, st1.out[k])

InitFloats ==
    /\ parent \in Trees
    /\ damage \in [DOMAIN parent -> SUBSET {REFLOW}]
    /\ status = "idle"
    /\ stack = <<>>
    /\ calls = 0
    /\ mode = "Incremental"
    /\ log = <<>>
    /\ damage0 = damage
    /\ overflow = [n \in DOMAIN parent |-> 0]
    /\ absPos \in [DOMAIN parent -> BOOLEAN]
    /\ spIn = [n \in DOMAIN parent |-> OldIn(n)]
    /\ spOut = [n \in DOMAIN parent |-> OldOut(n)]
    /\ spIn0 = spIn
    /\ spOut0 = spOut
    /\ BoxesUntouched
    /\ PaintUntouched

NextFloats ==
    \/ GuessCall
    \/ GuessCheck
    \/ GuessFirst
    \/ GuessKidAbsolute
    \/ GuessKidInFlow
    \/ GuessOut
    \/ GuessKidReturn

SpecFloats == InitFloats /\ [][NextFloats]_vars

----------------------------------------------------------------------------
(* iterate_through_flow_tree_fragment_border_boxes *)

\* Transform3D::transform_point2d(p): the point the matrix takes p to, None
\* when its w coordinate is not positive.
TransformPoint2D(m, p) ==
    LET x == p[1] * m.m11 + p[2] * m.m21 + m.m41
        y == p[1] * m.m12 + p[2] * m.m22 + m.m42
        w == p[1] * m.m14 + p[2] * m.m24 + m.m44
    IN  IF w > 0 THEN Some(<<x \div w, y \div w>>) ELSE None

\* Au::from_f32_px: pixels to app units, 60 to the pixel.
FromF32Px(px) == px * 60

\* Point2D + Vector2D
Plus(p, v) == <<p[1] + v[1], p[2] + v[2]>>

\* A test that takes every child for the root of a stacking context.
NewStackingContextAlways(k) == TRUE

\* kid.is_block_flow() && kid.as_block().fragment.establishes_stacking_context()
NewStackingContext(k) == boxes[k].block /\ boxes[k].sc

\* A position that leaves out the position of the parent.
NaivePositionWithoutParent(k, pos) ==
    Plus(<<boxes[k].margin, 0>>, boxes[k].srp)

\* Point2D::new(margin.inline_start, Au(0)) + kid.stacking_relative_position
\* + stacking_context_position.to_vector()
NaivePosition(k, pos) ==
    Plus(Plus(<<boxes[k].margin, 0>>, boxes[k].srp), pos)

\* matrix.transform_point2d(LayoutPoint::zero()) for the transform of child k
TransformedOrigin(k) == TransformPoint2D(boxes[k].transform[1], <<0, 0>>)

\* The unwrap() of the transformed origin of child k panics.
UnwrapPanics(k) ==
    /\ NewStackingContext(k)
    /\ boxes[k].transform # None
    /\ TransformedOrigin(k) = None

\* The stacking_context_position doit passes to child k of a flow that was
\* itself called with pos.
KidPosition(k, pos) ==
    IF ~NewStackingContext(k) THEN pos
    ELSE IF boxes[k].transform = None THEN NaivePosition(k, pos)
    ELSE Plus(NaivePosition(k, pos),
              <<FromF32Px(TransformedOrigin(k)[1][1]),
                FromF32Px(TransformedOrigin(k)[1][2])>>)

\* iterate_through_flow_tree_fragment_border_boxes(root, iterator):
\* doit(root, 0, iterator, &Point2D::zero())
IterateCall ==
    /\ status = "idle"
    /\ calls < MaxCalls
    /\ calls' = calls + 1
    /\ damage0' = damage
    /\ log' = <<>>
    /\ visits' = <<>>
    /\ stack' = <<Frame("iterate", Root, "visit")>>
    /\ status' = "running"
    /\ UNCHANGED <<parent, damage, mode, overflow, floatVars, boxes, paintVars>>

\* doit: flow.iterate_through_fragment_border_boxes(iterator, level,
\* stacking_context_position)
IterateVisit ==
    /\ Running("iterate", "visit")
    /\ visits' = Append(visits, [node |-> Top.node, level |-> Top.level,
                                 pos |-> Top.pos])
    /\ stack' = Goto("kids")
    /\ UNCHANGED <<parent, damage, status, calls, mode, log, damage0, overflow,
                   floatVars, boxes, paintVars>>

\* doit: the loop over the children; the position of the child is computed
\* and doit(kid, level + 1, iterator, &stacking_context_position) is called.
IterateKid ==
    /\ Running("iterate", "kids")
    /\ Top.kid <= Len(Kids(Top.node))
    /\ ~UnwrapPanics(ThisKid)
    /\ stack' = Append([stack EXCEPT ![Len(stack)].kid = Top.kid + 1],
                       [Frame("iterate", ThisKid, "visit") EXCEPT
                            !.level = Top.level + 1,
                            !.pos = KidPosition(ThisKid, Top.pos)])
    /\ UNCHANGED <<parent, damage, status, calls, mode, log, damage0, overflow,
                   floatVars, boxVars, paintVars>>

\* doit: the loop over the children, a child whose transform takes the
\* origin to no point: unwrap() panics.
IterateKidPanic ==
    /\ Running("iterate", "kids")
    /\ Top.kid <= Len(Kids(Top.node))
    /\ UnwrapPanics(ThisKid)
    /\ status' = "panicked"
    /\ UNCHANGED <<parent, damage, stack, calls, mode, log, damage0, overflow,
                   floatVars, boxVars, paintVars>>

\* doit: the end of the loop, and the return.
IterateReturn ==
    /\ Running("iterate", "kids")
    /\ Top.kid > Len(Kids(Top.node))
    /\ stack' = Pop
    /\ status' = AfterReturn
    /\ UNCHANGED <<parent, damage, calls, mode, log, damage0, overflow,
                   floatVars, boxVars, paintVars>>

\* The iteration reads the kind, the margin, the position and the transform
\* of the children only: the root is the same in every tree.
InitBoxes ==
    /\ parent \in Trees
    /\ damage = [n \in DOMAIN parent |-> {}]
    /\ status = "idle"
    /\ stack = <<>>
    /\ calls = 0
    /\ mode = "Incremental"
    /\ log = <<>>
    /\ damage0 = damage
    /\ overflow = [n \in DOMAIN parent |-> 0]
    /\ FloatsUntouched
    /\ boxes \in [DOMAIN parent -> BoxKinds \cup {PlainBlock}]
    /\ boxes[Root] = PlainBlock
    /\ \A n \in DOMAIN parent \ {Root} : boxes[n] \in BoxKinds
    /\ visits = <<>>
    /\ PaintUntouched

NextBoxes ==
    \/ IterateCall
    \/ IterateVisit
    \/ IterateKid
    \/ IterateKidPanic
    \/ IterateReturn

SpecBoxes == InitBoxes /\ [][NextBoxes]_vars

----------------------------------------------------------------------------
(* build_display_list_for_subtree *)

\* The background colours and the client sizes (app units) of a build.
Colors == {"white", "red"}
ClientSizes == {<<0, 0>>, <<60, 120>>, <<90, 30>>}

\* The largest z-index of a flow.
MaxZ == 1

RECURSIVE Preorder(_), PreorderOf(_, _)
\* The flows of the subtree of n in document order.
Preorder(n) == <<n>> \o PreorderOf(Kids(n), 1)

\* The flows of the subtrees of the flows kids[i], kids[i + 1], ...
PreorderOf(kids, i) ==
    IF i > Len(kids) THEN <<>>
    ELSE Preorder(kids[i]) \o PreorderOf(kids, i + 1)

\* An order that ignores the z-index: the document order.
DocumentOrder(z) == IF z = 0 THEN Preorder(Root) ELSE <<>>

RECURSIVE StackingOrder(_)
\* The flows in the order the stacking contexts collected in the first
\* phase give them: by z-index, from z on, and in document order within one
\* z-index.
StackingOrder(z) ==
    IF z > MaxZ THEN <<>>
    ELSE SelectSeq(Preorder(Root), LAMBDA n : zIndex[n] = z)
             \o StackingOrder(z + 1)

\* Rect<Au>
Rect(x, y, w, h) == [origin |-> <<x, y>>, size |-> <<w, h>>]

\* ToLayout: app units to layout pixels, an app unit being 1/60 pixel; a
\* length in pixels is kept as the fraction <<numerator, denominator>>.
ToLayoutPx(au) == <<au, 60>>
ToLayout(r) ==
    [origin |-> <<ToLayoutPx(r.origin[1]), ToLayoutPx(r.origin[2])>>,
     size |-> <<ToLayoutPx(r.size[1]), ToLayoutPx(r.size[2])>>]

\* Bounds that exchange the two extents of the client.
BackgroundBoundsSwapped(size) == Rect(0, 0, size[2], size[1])

\* Rect::new(Point2D::new(Au::new(0), Au::new(0)), client_size)
BackgroundBounds(size) == Rect(0, 0, size[1], size[2])

\* state.create_base_display_item(bounds, node, None, section)
BaseDisplayItem(bounds, node, section) ==
    [bounds |-> bounds, node |-> node, cursor |-> None, section |-> section]

\* DisplayItem::Rectangle(CommonDisplayItem::new(base, RectangleDisplayItem
\* { color, common, bounds: bounds.to_layout() })) for the page background.
BackgroundItem(color, size) ==
    [kind |-> "Rectangle",
     base |-> BaseDisplayItem(BackgroundBounds(size), FragmentNode(Root),
                              "BackgroundAndBorders"),
     color |-> color,
     bounds |-> ToLayout(BackgroundBounds(size))]

\* The display item the traversal adds for flow n.
FlowItem(n) ==
    [kind |-> "Fragment",
     base |-> BaseDisplayItem(Rect(0, 0, 0, 0), FragmentNode(n), "Content"),
     color |-> "none",
     bounds |-> ToLayout(Rect(0, 0, 0, 0))]

\* A body that traverses the tree before it adds the page background.
BuildBodyTraverseFirst == <<"collect", "new", "traverse", "background">>

\* The statements of build_display_list_for_subtree, in the order of the
\* source.
BuildBody == <<"collect", "new", "background", "traverse">>

\* The statement after statement p, "return" after the last.
BuildAfter(p) ==
    LET i == CHOOSE k \in 1..Len(BuildBody) : BuildBody[k] = p
    IN  IF i = Len(BuildBody) THEN "return" ELSE BuildBody[i + 1]

BuildStackAfter(p) ==
    IF BuildAfter(p) = "return" THEN Pop ELSE Goto(BuildAfter(p))

BuildStatusAfter(p) ==
    IF BuildAfter(p) = "return" THEN AfterReturn ELSE "running"

\* build_display_list_for_subtree(flow_root, layout_context,
\* background_color, client_size), called by the layout thread.
BuildCall ==
    /\ status = "idle"
    /\ calls < MaxCalls
    /\ calls' = calls + 1
    /\ \E c \in Colors, sz \in ClientSizes : dlArgs' = [color |-> c, size |-> sz]
    /\ damage0' = damage
    /\ log' = <<>>
    /\ scState' = None
    /\ items' = <<>>
    /\ stack' = <<Frame("build_display_list", Root, BuildBody[1])>>
    /\ status' = "running"
    /\ UNCHANGED <<parent, damage, mode, overflow, floatVars, boxVars, zIndex>>

\* let mut state = StackingContextCollectionState::new(layout_context.id);
\* flow_root.collect_stacking_contexts(&mut state)
BuildCollect ==
    /\ Running("build_display_list", "collect")
    /\ scState' = Some(StackingOrder(0))
    /\ log' = Append(log, Event("collect_stacking_contexts", Root))
    /\ stack' = BuildStackAfter("collect")
    /\ status' = BuildStatusAfter("collect")
    /\ UNCHANGED <<parent, damage, calls, mode, damage0, overflow, floatVars,
                   boxVars, zIndex, items, dlArgs>>

\* let mut state = DisplayListBuildState::new(layout_context, state)
BuildNewState ==
    /\ Running("build_display_list", "new")
    /\ items' = <<>>
    /\ log' = Append(log, Event("new_build_state", Root))
    /\ stack' = BuildStackAfter("new")
    /\ status' = BuildStatusAfter("new")
    /\ UNCHANGED <<parent, damage, calls, mode, damage0, overflow, floatVars,
                   boxVars, zIndex, scState, dlArgs>>

\* The page background: bounds, create_base_display_item with
\* flow_root.as_block().fragment.node, add_display_item.
BuildBackground ==
    /\ Running("build_display_list", "background")
    /\ boxes[Root].block
    /\ items' = Append(items, BackgroundItem(dlArgs.color, dlArgs.size))
    /\ log' = Append(log, Event("add_background", Root))
    /\ stack' = BuildStackAfter("background")
    /\ status' = BuildStatusAfter("background")
    /\ UNCHANGED <<parent, damage, calls, mode, damage0, overflow, floatVars,
                   boxVars, zIndex, scState, dlArgs>>

\* The page background, a root that is no block flow: as_block() panics.
BuildBackgroundPanic ==
    /\ Running("build_display_list", "background")
    /\ ~boxes[Root].block
    /\ status' = "panicked"
    /\ UNCHANGED <<parent, damage, stack, calls, mode, log, damage0, overflow,
                   floatVars, boxVars, paintVars>>

\* build_display_list.traverse(flow_root): the display item of the next
\* flow in stacking order is added.
BuildTraverse ==
    /\ Running("build_display_list", "traverse")
    /\ Top.kid <= Len(scState[1])
    /\ items' = Append(items, FlowItem(scState[1][Top.kid]))
    /\ log' = Append(log, Event("build_display_list", scState[1][Top.kid]))
    /\ stack' = [stack EXCEPT ![Len(stack)].kid = Top.kid + 1]
    /\ UNCHANGED <<parent, damage, status, calls, mode, damage0, overflow,
                   floatVars, boxVars, zIndex, scState, dlArgs>>

\* build_display_list.traverse(flow_root) has visited every flow; the next
\* statement, or the return of build_display_list.state.
BuildTraverseEnd ==
    /\ Running("build_display_list", "traverse")
    /\ Top.kid > Len(scState[1])
    /\ stack' = IF BuildAfter("traverse") = "return" THEN Pop
                ELSE [stack EXCEPT ![Len(stack)].kid = 1,
                                   ![Len(stack)].pc = BuildAfter("traverse")]
    /\ status' = BuildStatusAfter("traverse")
    /\ UNCHANGED <<parent, damage, calls, mode, log, damage0, overflow,
                   floatVars, boxVars, paintVars>>

InitPaint ==
    /\ parent \in Trees
    /\ damage = [n \in DOMAIN parent |-> {}]
    /\ status = "idle"
    /\ stack = <<>>
    /\ calls = 0
    /\ mode = "Incremental"
    /\ log = <<>>
    /\ damage0 = damage
    /\ overflow = [n \in DOMAIN parent |-> 0]
    /\ FloatsUntouched
    /\ boxes \in [DOMAIN parent -> RootKinds]
    /\ \A n \in DOMAIN parent \ {Root} : boxes[n].block
    /\ visits = <<>>
    /\ zIndex \in [DOMAIN parent -> 0..MaxZ]
    /\ zIndex[Root] = 0
    /\ scState = None
    /\ items = <<>>
    /\ dlArgs = [color |-> "none", size |-> <<0, 0>>]

NextPaint ==
    \/ BuildCall
    \/ BuildCollect
    \/ BuildNewState
    \/ BuildBackground
    \/ BuildBackgroundPanic
    \/ BuildTraverse
    \/ BuildTraverseEnd

SpecPaint == InitPaint /\ [][NextPaint]_vars

----------------------------------------------------------------------------
(* Properties of reflow *)

\* Event e of flow n is in the log before position i.
Earlier(e, n, i) == \E j \in 1..(i - 1) : log[j] = Event(e, n)

Happened(e, n) == \E i \in 1..Len(log) : log[i] = Event(e, n)

\* A top-level call has returned.
Returned == status = "idle" /\ calls >= 1

\* C1: during one call of reflow, the inline-size step of a child (the
\* should_process check and the assignment) never starts before the
\* inline-size step of its parent has finished, for every tree and damage.
C1_InlineTopDown ==
    \A i \in 1..Len(log) :
        (log[i].ev = "isize_begin" /\ parent[log[i].node] # 0) =>
            Earlier("isize_end", parent[log[i].node], i)

\* A reflow has assigned the inline sizes of a flow, of its parent and of
\* its grandparent (a tree of three levels).
C1_Witness ==
    /\ Returned
    /\ \E c \in Nodes :
        /\ parent[c] # 0
        /\ parent[parent[c]] # 0
        /\ Happened("assign_inline_sizes", c)
        /\ Happened("assign_inline_sizes", parent[c])
        /\ Happened("assign_inline_sizes", parent[parent[c]])

\* C2: during one call of reflow, the block-size step of a flow starts only
\* after the block-size step of every descendant has finished and after the
\* flow's own inline-size step.
C2_BlockBottomUp ==
    \A i \in 1..Len(log) :
        log[i].ev = "bsize_begin" =>
            /\ Earlier("isize_end", log[i].node, i)
            /\ \A d \in Nodes :
                   IsAncestor(log[i].node, d) => Earlier("bsize_end", d, i)

\* A reflow has assigned the block sizes of a flow with two children, one
\* of which has a child of its own.
C2_Witness ==
    /\ Returned
    /\ \E n \in Nodes :
        /\ Cardinality(KidSet(n)) >= 2
        /\ \E d \in Nodes : IsAncestor(n, d) /\ parent[d] # n
        /\ \A d \in Nodes : IsAncestor(n, d) => Happened("assign_block_size", d)
        /\ Happened("assign_block_size", n)

\* C5: in a reflow with RelayoutMode::Force every flow of the subtree carries
\* REFLOW and REFLOW_OUT_OF_FLOW when its inline-size check is evaluated,
\* whatever its damage was, so that the check passes and, once the call has
\* returned, every flow has had its inline and its block size assigned.
C5_ForceMarksEveryFlow ==
    mode = "Force" =>
        /\ Running("reflow", "isize") => ReflowBits \subseteq damage[Top.node]
        /\ \A i \in 1..(Len(log) - 1) :
               log[i].ev = "isize_begin" =>
                   log[i + 1] = Event("assign_inline_sizes", log[i].node)
        /\ Returned =>
               \A n \in Nodes : /\ Happened("assign_inline_sizes", n)
                                /\ Happened("assign_block_size", n)

\* A forced reflow has returned on a tree of three levels none of whose
\* flows carried damage.
C5_Witness ==
    /\ Returned
    /\ mode = "Force"
    /\ \E c \in Nodes : parent[c] # 0 /\ parent[parent[c]] # 0
    /\ \A n \in Nodes : damage0[n] = {}
    /\ \A n \in Nodes : Happened("assign_block_size", n)

----------------------------------------------------------------------------
(* Properties of store_overflow *)

\* C3: a call of store_overflow that follows another one on the same tree,
\* with no damage inserted in between, is a no-op: it computes the overflow
\* of no flow and changes the damage of no flow.
C3_SecondStoreOverflowNoOp ==
    calls >= 2 =>
        /\ \A i \in 1..Len(log) : log[i].ev \notin {"store_overflow", "clear"}
        /\ damage = damage0
        /\ \A n \in Nodes : overflow[n] < 2

\* A second call has returned after a first one that computed the overflow
\* of the root and of a child, and skipped a flow that carries the bit still.
C3_Witness ==
    /\ Returned
    /\ calls = 2
    /\ overflow[Root] = 1
    /\ \E c \in Nodes : parent[c] = Root /\ overflow[c] = 1
    /\ \E n \in Nodes : STORE_OVERFLOW \in damage[n]

\* Every proper ancestor of flow n up to the root carried STORE_OVERFLOW
\* when the call began.
DamagedPath(n) ==
    \A a \in Nodes : IsAncestor(a, n) => STORE_OVERFLOW \in damage0[a]

\* C4 as stated: after store_overflow returns, every flow that carried
\* STORE_OVERFLOW when the call began has its overflow computed and the bit
\* cleared, for every distribution of the bit.
C4_Original ==
    Returned =>
        \A n \in Nodes :
            STORE_OVERFLOW \in damage0[n] =>
                /\ Happened("store_overflow", n)
                /\ STORE_OVERFLOW \notin damage[n]

\* C4 as amended: after store_overflow returns, every flow that carried
\* STORE_OVERFLOW when the call began, and all of whose ancestors up to the
\* root carried it too, has its overflow computed and the bit cleared.
C4_StoredAlongDamagedPaths ==
    Returned =>
        \A n \in Nodes :
            (STORE_OVERFLOW \in damage0[n] /\ DamagedPath(n)) =>
                /\ Happened("store_overflow", n)
                /\ overflow[n] = calls
                /\ STORE_OVERFLOW \notin damage[n]

\* A call has returned on a flow with two children and a grandchild that all
\* carried the bit.
C4_Witness ==
    /\ Returned
    /\ calls = 1
    /\ Cardinality(KidSet(Root)) >= 2
    /\ \E d \in Nodes : parent[d] # 0 /\ parent[parent[d]] # 0
    /\ \A n \in Nodes : STORE_OVERFLOW \in damage0[n]
    /\ \A n \in Nodes : Happened("store_overflow", n)

----------------------------------------------------------------------------
(* Properties of guess_float_placement *)

\* Flow n and the flows below it.
Subtree(n) == {n} \cup { d \in Nodes : IsAncestor(n, d) }

\* The stored placements when the current call began.
Placements0 == [in |-> spIn0, out |-> spOut0]

\* C6: an absolutely positioned child takes no part in the float chain: its
\* parent neither writes its incoming placement nor reads its outgoing one,
\* and the placements of every flow outside the child's subtree (the
\* parent's outgoing one and the incoming ones of the later siblings among
\* them) are those of the same call on the tree without that child.
C6_AbsoluteChildOutsideFloatChain ==
    Returned =>
        \A a \in Nodes \ {Root} :
            absPos[a] =>
                /\ spIn[a] = spIn0[a]
                /\ ~Happened("write_in", a)
                /\ ~Happened("read_out", a)
                /\ LET without == GuessFrom(Placements0, Root, {a})
                   IN  \A n \in Nodes \ Subtree(a) :
                           /\ spIn[n] = without.in[n]
                           /\ spOut[n] = without.out[n]

\* A call has returned on a flow with REFLOW damage whose three children
\* all carry REFLOW damage, the middle one absolutely positioned and the
\* other two not.
C6_Witness ==
    /\ Returned
    /\ REFLOW \in damage[Root]
    /\ Len(Kids(Root)) = 3
    /\ \A k \in KidSet(Root) : REFLOW \in damage[k]
    /\ absPos[Kids(Root)[2]]
    /\ ~absPos[Kids(Root)[1]]
    /\ ~absPos[Kids(Root)[3]]
    /\ Happened("write_out", Kids(Root)[2])
    /\ Happened("write_out", Root)

\* The call reaches flow n: n and all its ancestors carry REFLOW damage.
Reached(n) ==
    /\ REFLOW \in damage0[n]
    /\ \A a \in Nodes : IsAncestor(a, n) => REFLOW \in damage0[a]

\* The call writes the incoming placement of flow n: n is a child, not
\* absolutely positioned, of a flow the call reaches.
InWritten(n) == n # Root /\ ~absPos[n] /\ Reached(parent[n])

\* C7 as stated: after guess_float_placement(root) returns, the outgoing
\* placement of every flow and the incoming placement of every flow below
\* the root were computed during that call, and every outgoing placement a
\* parent consumed had been computed during that call before, for every
\* distribution of REFLOW damage and of absolutely-positioned flags.
C7_Original ==
    Returned =>
        /\ \A n \in Nodes : Happened("write_out", n)
        /\ \A n \in Nodes \ {Root} : Happened("write_in", n)
        /\ \A i \in 1..Len(log) :
               log[i].ev = "read_out" => Earlier("write_out", log[i].node, i)

\* C7 as amended: after guess_float_placement(root) returns, the outgoing
\* placement of exactly the flows the call reached (flows with REFLOW damage
\* whose ancestors all have REFLOW damage) and the incoming placement of
\* exactly their children that are not absolutely positioned were computed
\* during that call; every other stored placement is the one from before
\* the call, and a reached parent consumes the outgoing placement of each of
\* its children that is not absolutely positioned, computed in this call or
\* not.
C7_FreshWhereReached ==
    Returned =>
        \A n \in Nodes :
            /\ Reached(n) => Happened("write_out", n)
            /\ ~Reached(n) => ~Happened("write_out", n) /\ spOut[n] = spOut0[n]
            /\ InWritten(n) => Happened("write_in", n) /\ Happened("read_out", n)
            /\ ~InWritten(n) =>
                   /\ ~Happened("write_in", n)
                   /\ ~Happened("read_out", n)
                   /\ spIn[n] = spIn0[n]

\* A call has returned whose root consumed, as the last link of its chain,
\* the outgoing placement that a child without REFLOW damage kept from
\* before the call.
C7_Witness ==
    /\ Returned
    /\ Reached(Root)
    /\ \E k \in KidSet(Root) :
        /\ ~absPos[k]
        /\ REFLOW \notin damage0[k]
        /\ KidSet(k) # {}
        /\ spOut[k] = spOut0[k]
        /\ Happened("read_out", k)
        /\ spOut[Root] = ComputeFloatsOut(spOut0[k], Root, spIn[Root])

----------------------------------------------------------------------------
(* Properties of build_display_list_for_subtree *)

\* C9: the first display item added to the display-list build state of a
\* call build_display_list_for_subtree(root, ctx, C, (W, H)) is a rectangle
\* with origin (0,0) and size (W,H), colour C, section BackgroundAndBorders
\* and the node of root's fragment; it is added after the stacking contexts
\* have been collected and before any item of the tree traversal, and a call
\* that returns has added it.
C9_BackgroundFirst ==
    /\ Len(items) >= 1 =>
        /\ items[1].kind = "Rectangle"
        /\ items[1].base.bounds.origin = <<0, 0>>
        /\ items[1].base.bounds.size = dlArgs.size
        /\ items[1].bounds.origin = <<<<0, 60>>, <<0, 60>>>>
        /\ items[1].bounds.size = <<<<dlArgs.size[1], 60>>, <<dlArgs.size[2], 60>>>>
        /\ items[1].color = dlArgs.color
        /\ items[1].base.section = "BackgroundAndBorders"
        /\ items[1].base.node = FragmentNode(Root)
    /\ \A i \in 1..Len(log) :
        /\ log[i].ev = "add_background" =>
               Earlier("collect_stacking_contexts", Root, i)
        /\ log[i].ev = "build_display_list" => Earlier("add_background", Root, i)
    /\ Returned => Len(items) >= 1

\* A build with a client that is wider than high has returned the
\* background and the items of three flows.
C9_Witness ==
    /\ Returned
    /\ dlArgs.size = <<90, 30>>
    /\ dlArgs.color = "red"
    /\ Len(items) = 4
    /\ Cardinality(Nodes) = 3
    /\ \E n \in Nodes : zIndex[n] = 1

----------------------------------------------------------------------------
(* Properties of iterate_through_flow_tree_fragment_border_boxes *)

\* The position the iterator received for flow n.
VisitedAt(n) == visits[CHOOSE j \in 1..Len(visits) : visits[j].node = n].pos

\* C10: the position passed to a child that is a block flow and establishes
\* a stacking context is (its inline-start margin, 0) + its
\* stacking-relative position + the position of its parent, plus, when it
\* has a transform, the image of the origin under the transform, in app
\* units; for a pure translation (dx, dy) the added term is (dx, dy).
C10_StackingContextPosition ==
    \A i \in 1..Len(visits) :
        LET c == visits[i].node
            b == boxes[c]
            naive == <<b.margin + b.srp[1] + VisitedAt(parent[c])[1],
                       0 + b.srp[2] + VisitedAt(parent[c])[2]>>
            m == b.transform[1]
        IN  (c # Root /\ b.block /\ b.sc) =>
                /\ b.transform = None => visits[i].pos = naive
                /\ b.transform # None =>
                       visits[i].pos =
                           <<naive[1] + 60 * (m.m41 \div m.m44),
                             naive[2] + 60 * (m.m42 \div m.m44)>>
                /\ \A dx, dy \in -2..2 :
                       b.transform = Translation(dx, dy) =>
                           visits[i].pos = <<naive[1] + 60 * dx, naive[2] + 60 * dy>>

\* The iterator has received, two levels below the root, a flow with a
\* translation whose parent has a rotation, and the iteration has returned.
C10_Witness ==
    /\ Returned
    /\ \E i \in 1..Len(visits) :
        /\ visits[i].level = 2
        /\ boxes[visits[i].node] = Box(TRUE, TRUE, 2, <<3, 5>>, Translation(1, 2))
        /\ boxes[parent[visits[i].node]] =
               Box(TRUE, TRUE, 2, <<3, 5>>, Some(Matrix(0, 1, -1, 0, 4, -2, 1)))
        /\ visits[i].pos = <<(2 + 3 + 60) + (2 + 3 + 240), (5 + 120) + (5 - 120)>>

RECURSIVE Depth(_)
\* The number of ancestors of flow n.
Depth(n) == IF parent[n] = 0 THEN 0 ELSE 1 + Depth(parent[n])

\* The call of the iteration has ended: it has returned or it has panicked.
Ended == calls >= 1 /\ status # "running"

\* C11: a call iterate_through_flow_tree_fragment_border_boxes(root,
\* visitor) calls the visitor for every flow of the tree exactly once, in
\* depth-first pre-order with the children in insertion order, with level 0
\* for the root and the depth below the root for every other flow, and with
\* position (0,0) for the root.
C11_EveryFlowOncePreorder ==
    Ended =>
        /\ [i \in 1..Len(visits) |-> visits[i].node] = Preorder(Root)
        /\ \A i \in 1..Len(visits) : visits[i].level = Depth(visits[i].node)
        /\ visits[1].pos = <<0, 0>>

\* C12: no traversal fails: the unwrap() of the transformed origin of a
\* child never panics, whatever kinds, flags and transforms the flows of the
\* tree carry.
C12_NoFailure == status # "panicked"

\* The positions in the display list of the items of flow n.
ItemsOf(n) == { i \in 1..Len(items) : items[i].base.node = FragmentNode(n)
                                      /\ items[i].kind # "Rectangle" }

\* C13: when a child with the higher z-index comes earlier in document
\* order than a sibling it must paint above, every item of that child is in
\* the display list after the items of the sibling, and a build that returns
\* has added the items of both.
C13_StackingOrderOverridesDocumentOrder ==
    \A a, b \in Nodes :
        (parent[a] # 0 /\ parent[a] = parent[b] /\ a < b
            /\ zIndex[a] > zIndex[b]) =>
            /\ \A i \in ItemsOf(a) :
                   /\ ItemsOf(b) # {}
                   /\ \A j \in ItemsOf(b) : j < i
            /\ Returned => ItemsOf(a) # {} /\ ItemsOf(b) # {}

\* A build has returned on a root whose first child has z-index 1 and whose
\* later child, with a child of its own, has z-index 0; the item of the
\* first child is the last of the list.
C13_Witness ==
    /\ Returned
    /\ Len(Kids(Root)) = 2
    /\ zIndex[Kids(Root)[1]] = 1
    /\ zIndex[Kids(Root)[2]] = 0
    /\ KidSet(Kids(Root)[2]) # {}
    /\ ItemsOf(Kids(Root)[1]) = {Len(items)}
    /\ ItemsOf(Kids(Root)[2]) # {}

----------------------------------------------------------------------------
(* Properties of store_overflow, continued *)

\* C14: a call of store_overflow on a flow whose damage lacks STORE_OVERFLOW
\* visits no flow below it and leaves the damage and the stored overflow of
\* every flow of its subtree as they were, those of the flows below it that
\* carry STORE_OVERFLOW included.
C14_SkippedSubtreeUntouched ==
    \A n \in Nodes :
        (Happened("visit", n) /\ STORE_OVERFLOW \notin damage0[n]) =>
            \A d \in Subtree(n) :
                /\ d # n => ~Happened("visit", d)
                /\ damage[d] = damage0[d]
                /\ ~Happened("store_overflow", d)
                /\ ~Happened("clear", d)
                /\ overflow[d] < calls

\* A call has returned that processed the root and was called on a child
\* without the bit, below which a flow carries the bit still.
C14_Witness ==
    /\ Returned
    /\ calls = 1
    /\ Happened("store_overflow", Root)
    /\ \E k \in KidSet(Root), g \in Nodes :
        /\ parent[g] = k
        /\ STORE_OVERFLOW \notin damage0[k]
        /\ Happened("visit", k)
        /\ STORE_OVERFLOW \in damage0[g]
        /\ STORE_OVERFLOW \in damage[g]
        /\ overflow[g] = 0

\* C15: when store_overflow computes the overflow of a flow, the call on
\* each of its children has ended (a child that carried the bit has been
\* processed and has had its bit cleared, a child without it has been called
\* and has returned at once); the bit of a flow is cleared after its
\* overflow has been computed; and in no state has a flow lost its bit
\* during the call while its overflow of this call is not computed yet.
C15_KidsThenStoreThenClear ==
    /\ \A i \in 1..Len(log) :
        /\ log[i].ev = "store_overflow" =>
               \A k \in KidSet(log[i].node) :
                   /\ Earlier("visit", k, i)
                   /\ STORE_OVERFLOW \in damage0[k] => Earlier("clear", k, i)
        /\ log[i].ev = "clear" => Earlier("store_overflow", log[i].node, i)
    /\ \A n \in Nodes :
           (STORE_OVERFLOW \in damage0[n] /\ STORE_OVERFLOW \notin damage[n]) =>
               /\ Happened("store_overflow", n)
               /\ overflow[n] = calls

\* The overflow of a root with two children that carried the bit, one of
\* them with a child of its own, has been computed after theirs, and its
\* bit is not cleared yet.
C15_Witness ==
    /\ status = "running"
    /\ Len(Kids(Root)) = 2
    /\ \E g \in Nodes : parent[g] # 0 /\ parent[parent[g]] # 0
    /\ \A n \in Nodes : STORE_OVERFLOW \in damage0[n]
    /\ \A n \in Nodes \ {Root} : Happened("clear", n)
    /\ Happened("store_overflow", Root)
    /\ overflow[Root] = calls
    /\ STORE_OVERFLOW \in damage[Root]

----------------------------------------------------------------------------
(* Properties of guess_float_placement, continued *)

\* The children of flow n that are not absolutely positioned, in document
\* order.
InFlowKids(n) == SelectSeq(Kids(n), LAMBDA k : ~absPos[k])

\* C16: after a call that reached flow n (n has REFLOW damage), the children
\* of n that are not absolutely positioned form a chain in document order:
\* the first one has received the placement computed for the first child of
\* n, each later one the outgoing placement of the one before it in the
\* chain, each passed through compute_floats_in for the child that receives
\* it; the outgoing placement of n is derived from the outgoing placement of
\* the last one, or from the first-child placement when there is none.
C16_FloatChain ==
    Returned =>
        \A n \in Nodes :
            Reached(n) =>
                LET ks == InFlowKids(n)
                    first == ComputeFloatsInForFirstChild(n, spIn[n])
                IN  /\ \A i \in 1..Len(ks) :
                           spIn[ks[i]] =
                               ComputeFloatsIn(IF i = 1 THEN first
                                               ELSE spOut[ks[i - 1]], ks[i])
                    /\ spOut[n] =
                           ComputeFloatsOut(IF Len(ks) = 0 THEN first
                                            ELSE spOut[ks[Len(ks)]], n, spIn[n])

\* A call has returned on a root with REFLOW damage and three children, the
\* first absolutely positioned and the other two not; the last child has
\* received the outgoing placement the second computed in this call.
C16_Witness ==
    /\ Returned
    /\ Reached(Root)
    /\ Len(Kids(Root)) = 3
    /\ absPos[Kids(Root)[1]]
    /\ InFlowKids(Root) = <<Kids(Root)[2], Kids(Root)[3]>>
    /\ Happened("write_out", Kids(Root)[2])
    /\ spIn[Kids(Root)[3]] =
           ComputeFloatsIn(spOut[Kids(Root)[2]], Kids(Root)[3])
    /\ spOut[Kids(Root)[2]] # spOut0[Kids(Root)[2]]

\* C17: a call of guess_float_placement on a flow n whose damage does not
\* intersect REFLOW visits no child and changes no placement of the subtree:
\* the outgoing placement of n and both placements of every flow below n
\* are those from before the call, and the incoming placement of n is
\* written, if at all, by its parent before the call on n.
C17_CleanSubtreeUntouched ==
    \A n \in Nodes :
        (Happened("visit", n) /\ REFLOW \notin damage[n]) =>
            /\ ~Happened("write_out", n)
            /\ spOut[n] = spOut0[n]
            /\ \A i \in 1..Len(log) :
                   log[i] = Event("write_in", n) => ~Earlier("visit", n, i)
            /\ ~Happened("write_in", n) => spIn[n] = spIn0[n]
            /\ \A d \in Subtree(n) \ {n} :
                   /\ ~Happened("visit", d)
                   /\ ~Happened("write_in", d)
                   /\ ~Happened("write_out", d)
                   /\ ~Happened("read_out", d)
                   /\ spIn[d] = spIn0[d]
                   /\ spOut[d] = spOut0[d]

\* A call has returned that was called on a child without REFLOW damage,
\* absolutely positioned, below which a flow has REFLOW damage: the
\* placements of both are those from before the call.
C17_Witness ==
    /\ Returned
    /\ Reached(Root)
    /\ \E k \in KidSet(Root), g \in Nodes :
        /\ parent[g] = k
        /\ absPos[k]
        /\ REFLOW \notin damage[k]
        /\ REFLOW \in damage[g]
        /\ Happened("visit", k)
        /\ spIn[k] = spIn0[k] /\ spOut[k] = spOut0[k]
        /\ spIn[g] = spIn0[g] /\ spOut[g] = spOut0[g]

----------------------------------------------------------------------------
(* Properties of iterate_through_flow_tree_fragment_border_boxes, continued *)

\* C18: the position passed to a child differs from the position of its
\* parent only when the child establishes a stacking context: every child
\* that establishes none receives the position of its parent, whatever its
\* margin and its stacking-relative position are and whatever its earlier
\* siblings received; and two children of one parent with the same
\* attributes receive the same position, whatever is between them.
C18_PositionChangesAtStackingContextsOnly ==
    \A i \in 1..Len(visits) :
        LET c == visits[i].node
        IN  c # Root =>
                /\ ~boxes[c].sc => visits[i].pos = VisitedAt(parent[c])
                /\ visits[i].pos # VisitedAt(parent[c]) =>
                       boxes[c].sc /\ boxes[c].block
                /\ \A j \in 1..(i - 1) :
                       (parent[visits[j].node] = parent[c]
                           /\ boxes[visits[j].node] = boxes[c]) =>
                           visits[j].pos = visits[i].pos

\* The iteration has returned; a flow that establishes a stacking context,
\* at a position other than the origin, has a first child that establishes
\* one too and a later child that establishes none: the later child has
\* received the position of the parent, the first child another one.
C18_Witness ==
    /\ Returned
    /\ \E i, j \in 1..Len(visits) :
        /\ i < j
        /\ parent[visits[i].node] = parent[visits[j].node]
        /\ visits[i].level = 2
        /\ boxes[visits[i].node].sc /\ boxes[visits[i].node].block
        /\ boxes[visits[j].node] = Box(TRUE, FALSE, 7, <<11, 13>>, NoTransform)
        /\ VisitedAt(parent[visits[j].node]) # <<0, 0>>
        /\ visits[j].pos = VisitedAt(parent[visits[j].node])
        /\ visits[i].pos # visits[j].pos

----------------------------------------------------------------------------
(* Properties of reflow, continued *)

\* The flows doit has been called on, in the order of the calls.
DoitCalls ==
    LET begins == SelectSeq(log, LAMBDA e : e.ev = "isize_begin")
    IN  [i \in 1..Len(begins) |-> begins[i].node]

\* C20: a call of reflow calls doit on every flow of the tree exactly once,
\* in document order, whatever the damage is; every flow that had a reflow
\* bit when the call began (and every flow in a forced call) has had its
\* inline size and its block size assigned when the call returns, the flows
\* below ancestors without damage included.
C20_EveryFlowVisited ==
    Returned =>
        /\ DoitCalls = Preorder(Root)
        /\ \A n \in Nodes :
               (mode = "Force" \/ damage0[n] \cap ReflowBits # {}) =>
                   /\ Happened("assign_inline_sizes", n)
                   /\ Happened("assign_block_size", n)

\* A call that forces nothing has returned on a tree whose root and whose
\* child had no damage; the sizes of a damaged flow below the child, and of
\* no other flow, have been assigned.
C20_Witness ==
    /\ Returned
    /\ mode = "Incremental"
    /\ \E k, g \in Nodes :
        /\ parent[k] = Root
        /\ parent[g] = k
        /\ damage0[Root] = {}
        /\ damage0[k] = {}
        /\ REFLOW \in damage0[g]
        /\ Happened("assign_inline_sizes", g)
        /\ Happened("assign_block_size", g)
        /\ ~Happened("assign_inline_sizes", Root)
        /\ ~Happened("assign_block_size", k)

----------------------------------------------------------------------------
(* The drivers on one tree *)

\* The number of calls the layout thread makes of the drivers on one tree.
MaxDriverCalls == 1

\* The layout thread may make one more call.
CallAllowed == calls < MaxDriverCalls

\* A tree some of whose flows carry reflow and overflow damage, whose third
\* flow is absolutely positioned, and none of whose flows has a margin, an
\* offset or a transform (so that no unwrap() of the iteration can panic).
InitDrivers ==
    /\ parent \in Trees
    /\ damage \in [DOMAIN parent -> {{}, {REFLOW, STORE_OVERFLOW}}]
    /\ status = "idle"
    /\ stack = <<>>
    /\ calls = 0
    /\ mode = "Incremental"
    /\ log = <<>>
    /\ damage0 = damage
    /\ overflow = [n \in DOMAIN parent |-> 0]
    /\ absPos = [n \in DOMAIN parent |-> n = 3]
    /\ spIn = [n \in DOMAIN parent |-> OldIn(n)]
    /\ spOut = [n \in DOMAIN parent |-> OldOut(n)]
    /\ spIn0 = spIn
    /\ spOut0 = spOut
    /\ BoxesUntouched
    /\ PaintUntouched

\* The layout thread calls reflow, store_overflow, guess_float_placement and
\* the border-box iteration, one after the other and in any order.
NextDrivers ==
    \/ CallAllowed /\ ReflowCall
    \/ CallAllowed /\ StoreOverflowCall
    \/ CallAllowed /\ GuessCall
    \/ CallAllowed /\ IterateCall
    \/ DoitForce
    \/ DoitInlineCheck
    \/ DoitInlineProcess
    \/ DoitKids
    \/ DoitBlockCheck
    \/ DoitBlockProcess
    \/ StoreOverflowCheck
    \/ StoreOverflowKids
    \/ StoreOverflowCompute
    \/ StoreOverflowClear
    \/ GuessCheck
    \/ GuessFirst
    \/ GuessKidAbsolute
    \/ GuessKidInFlow
    \/ GuessOut
    \/ GuessKidReturn
    \/ IterateVisit
    \/ IterateKid
    \/ IterateReturn

SpecDrivers == InitDrivers /\ [][NextDrivers]_vars

\* The driver whose statement the next step executes is f.
InDriver(f) == status = "running" /\ stack # <<>> /\ Top.fn = f

\* C19: no step of a driver adds a damage bit to a flow, but the force
\* statement of a reflow in mode Force, which adds REFLOW_OUT_OF_FLOW and
\* REFLOW to the flow doit is at and to no other; a step of store_overflow
\* changes the damage only by removing STORE_OVERFLOW from the flow whose
\* overflow it has just computed; guess_float_placement and the border-box
\* iteration change the damage of no flow.
C19_NoDamageInsertedButByForce ==
    [][\A n \in Nodes :
          /\ \/ damage'[n] \subseteq damage[n]
             \/ /\ Running("reflow", "force")
                /\ mode = "Force"
                /\ n = Top.node
                /\ damage'[n] = damage[n] \cup {REFLOW_OUT_OF_FLOW, REFLOW}
          /\ InDriver("store_overflow") =>
                 \/ damage'[n] = damage[n]
                 \/ /\ n = Top.node
                    /\ Happened("store_overflow", n)
                    /\ damage'[n] = damage[n] \ {STORE_OVERFLOW}
          /\ (InDriver("guess_float_placement") \/ InDriver("iterate")) =>
                 damage'[n] = damage[n]
    ]_vars

\* A reflow that forces nothing has returned: it has assigned the sizes of a
\* damaged child of a root without damage and cleared the child's reflow
\* bits; the root and a flow below that child are without damage still.
C19_Witness ==
    /\ Returned
    /\ mode = "Incremental"
    /\ Happened("bsize_end", Root)
    /\ damage0[Root] = {}
    /\ damage[Root] = {}
    /\ \E k, g \in Nodes :
        /\ parent[k] = Root
        /\ parent[g] = k
        /\ damage0[k] = {REFLOW, STORE_OVERFLOW}
        /\ Happened("assign_block_size", k)
        /\ damage[k] = {STORE_OVERFLOW}
        /\ damage0[g] = {}
        /\ damage[g] = {}

=============================================================================
